---------------------------- MODULE Spec2Model ----------------------------
(***************************************************************************)
(* A model of ti4_map_generator/map_generation.py: tile construction,      *)
(* draw_all_tiles, generate_slices, the check_slice_balance /              *)
(* rebalance_slices loop of prepare_slices, and Slice.place_tiles.         *)
(*                                                                         *)
(* A tile object is named by its position in the catalog (1..N); None is   *)
(* written 0.  Strings are sequences of one-character strings.  Every      *)
(* number is an integer: prepare_slices builds tiles from the raw planet   *)
(* rows (int(p['resources'])), so no value is ever halved, and             *)
(* a >= 1.5 * b is compared as 2 * a >= 3 * b.                             *)
(***************************************************************************)
EXTENDS Integers, Sequences, FiniteSets

VARIABLES
  tile,           \* the Tile objects built by prepare_slices: id -> Tile
  tiles,          \* the list draw_all_tiles works on, then the pool
  drawn,          \* draw_all_tiles' local `tile` (the tile last popped)
  slices,         \* the list of Slice objects
  pc,             \* the position of the single thread of control
  raised,         \* the exception that ended the run, or NoError
  best_tile,      \* locals of rebalance_slices
  worst_tile,
  best_inf_tile,
  best_res_tile,
  swaps,          \* history: swaps completed by the current rebalance pass
  placeIdx        \* the index of `for slice_ in slices` in prepare_slices

vars == <<tile, tiles, drawn, slices, pc, raised, best_tile, worst_tile,
          best_inf_tile, best_res_tile, swaps, placeIdx>>

-----------------------------------------------------------------------------
(* Bounds of the model.                                                    *)

\* random.shuffle of a pool is drawn from the rotations by 0..MaxRot
MaxRot == 3
\* the lists given to draw_all_tiles on its own have at most this many tiles
MaxDrawLen == 4
\* the slices given to place_tiles on its own are cut from the red and the
\* blue tiles of a catalog rotated by 0..MaxPlaceRot
MaxPlaceRot == 1

-----------------------------------------------------------------------------
(* Program constants.                                                      *)

NumSlices == 6
RedPerSlice == 2
BluePerSlice == 3
NumSlots == 7
None == 0

NoError == [exc |-> "none", in |-> "none"]
Error(exc, in) == [exc |-> exc, in |-> in]

-----------------------------------------------------------------------------
(* Sequence helpers.                                                       *)

Range(s) == {s[i] : i \in DOMAIN s}

RECURSIVE SumSeq(_)
SumSeq(s) == IF s = <<>> THEN 0 ELSE Head(s) + SumSeq(Tail(s))

RECURSIVE Flatten(_)
Flatten(ss) == IF ss = <<>> THEN <<>> ELSE Head(ss) \o Flatten(Tail(ss))

\* s without its i-th element (list.pop(i - 1))
RemoveAt(s, i) == SubSeq(s, 1, i - 1) \o SubSeq(s, i + 1, Len(s))

\* list.insert(i, x) for 0 <= i <= len
InsertAt(s, i, x) == SubSeq(s, 1, i) \o <<x>> \o SubSeq(s, i + 1, Len(s))

\* s rotated left by k places: one outcome of random.shuffle(s)
Rot(s, k) ==
  IF s = <<>> THEN s
  ELSE [i \in 1..Len(s) |-> s[((i - 1 + k) % Len(s)) + 1]]

\* the outcomes of random.shuffle the pipeline is explored under
BoundedShuffles(s) == {Rot(s, k) : k \in 0..MaxRot}

\* every outcome of random.shuffle(s), for a short s
AllShuffles(s) ==
  {[i \in 1..Len(s) |-> s[p[i]]] :
     p \in {q \in [1..Len(s) -> 1..Len(s)] : Range(q) = 1..Len(s)}}

\* the pairs <<a, b>> of elements of s, the order relations are sets of these
Pairs(s) == Range(s) \X Range(s)

\* list.sort: the stable sort of s by the strict order before, a set of
\* pairs <<a, b>> with a before b
StableSort(s, before) ==
  LET rank(i) == Cardinality({j \in DOMAIN s :
                     \/ <<s[j], s[i]>> \in before
                     \/ (<<s[i], s[j]>> \notin before /\ j < i)}) + 1
  IN [k \in 1..Len(s) |-> s[CHOOSE i \in DOMAIN s : rank(i) = k]]

-----------------------------------------------------------------------------
(* Tile: the raw records and Tile.__post_init__.                           *)

NoTech == <<>>
TechB == <<"B">>
TechG == <<"G">>
Wormhole == <<"W", "o", "r", "m", "h", "o", "l", "e">>
WormholeA == Wormhole \o <<"A">>
WormholeB == Wormhole \o <<"B">>
Nebula == <<"N", "e", "b", "u", "l", "a">>
Asteroid == <<"A", "s", "t", "e", "r", "o", "i", "d">>

P(r, i, t) == [resources |-> r, influence |-> i, technology |-> t]
Red(planets, anomalies) ==
  [color |-> "red", planets |-> planets, anomalies |-> anomalies]
Blue(planets, anomalies) ==
  [color |-> "blue", planets |-> planets, anomalies |-> anomalies]

StartsWith(s, prefix) ==
  Len(s) >= Len(prefix) /\ SubSeq(s, 1, Len(prefix)) = prefix

\* Tile.wormholes: the last character of every anomaly named Wormhole...
TileWormholes(anomalies) ==
  LET IsWormhole(a) == StartsWith(a, Wormhole)
      w == SelectSeq(anomalies, IsWormhole)
  IN [k \in 1..Len(w) |-> w[k][Len(w[k])]]

\* Tile(id_, color, planets, anomalies) after __post_init__
MakeTile(id, raw) ==
  LET res == SumSeq([k \in 1..Len(raw.planets) |-> raw.planets[k].resources])
      inf == SumSeq([k \in 1..Len(raw.planets) |-> raw.planets[k].influence])
      tech == Flatten([k \in 1..Len(raw.planets) |-> raw.planets[k].technology])
      worm == TileWormholes(raw.anomalies)
      bonus == IF worm # <<>> /\ Len(worm) - Cardinality(Range(worm)) = 0
               THEN 1 ELSE 0
  IN [id_ |-> id, color |-> raw.color, anomalies |-> raw.anomalies,
      resources |-> res, influence |-> inf, technology |-> tech,
      wormholes |-> worm,
      absolute_value |-> res + inf + 2 * Len(tech) + bonus]

\* the Tile objects prepare_slices builds from a catalog (tiles.json)
BuildTiles(catalog) == [id \in 1..Len(catalog) |-> MakeTile(id, catalog[id])]

-----------------------------------------------------------------------------
(* The tile catalogs the model is run on (the contents of config/, which   *)
(* the program reads): 12 red and 19 blue tiles each.                      *)

CatalogA ==
  << Blue(<<P(4, 0, TechG), P(2, 0, NoTech)>>, <<>>),
     Blue(<<P(2, 0, TechB), P(2, 1, NoTech)>>, <<>>),
     Red(<<P(4, 2, NoTech)>>, <<Asteroid>>),
     Blue(<<P(1, 0, TechG)>>, <<>>),
     Blue(<<P(0, 4, NoTech), P(1, 1, NoTech)>>, <<WormholeA, WormholeB>>),
     Red(<<>>, <<WormholeA>>),
     Blue(<<P(2, 2, NoTech)>>, <<>>),
     Red(<<>>, <<Nebula>>),
     Red(<<>>, <<WormholeA>>),
     Red(<<>>, <<WormholeB>>),
     Blue(<<P(4, 0, TechG)>>, <<WormholeA, WormholeA>>),
     Red(<<>>, <<Asteroid>>),
     Red(<<P(0, 3, NoTech)>>, <<WormholeA>>),
     Blue(<<P(3, 3, NoTech)>>, <<>>),
     Red(<<>>, <<Nebula>>),
     Blue(<<P(1, 4, TechG), P(2, 1, NoTech)>>, <<WormholeA, WormholeA>>),
     Blue(<<P(3, 3, TechG)>>, <<>>),
     Red(<<>>, <<>>),
     Blue(<<P(4, 0, NoTech)>>, <<>>),
     Blue(<<P(1, 0, NoTech)>>, <<>>),
     Red(<<P(4, 4, NoTech)>>, <<Asteroid>>),
     Blue(<<P(1, 2, NoTech), P(1, 0, NoTech)>>, <<WormholeA>>),
     Blue(<<P(1, 2, NoTech), P(2, 0, NoTech)>>, <<WormholeA>>),
     Blue(<<P(1, 2, TechB), P(0, 0, NoTech)>>, <<WormholeA>>),
     Blue(<<P(3, 2, TechG)>>, <<>>),
     Blue(<<P(3, 2, TechB), P(0, 2, NoTech)>>, <<>>),
     Red(<<P(1, 4, NoTech)>>, <<>>),
     Blue(<<P(0, 2, TechB), P(2, 2, NoTech)>>, <<WormholeA, WormholeA>>),
     Red(<<P(4, 3, NoTech)>>, <<>>),
     Blue(<<P(1, 1, TechG), P(2, 1, NoTech)>>, <<>>),
     Blue(<<P(4, 0, NoTech)>>, <<>>) >>

CatalogB ==
  << Blue(<<P(1, 2, NoTech)>>, <<WormholeA, WormholeB>>),
     Blue(<<P(2, 1, NoTech)>>, <<WormholeA, WormholeB>>),
     Blue(<<P(0, 0, TechB)>>, <<>>),
     Blue(<<P(1, 2, NoTech)>>, <<>>),
     Blue(<<P(1, 1, TechB)>>, <<>>),
     Blue(<<P(1, 1, NoTech), P(1, 1, NoTech)>>, <<>>),
     Red(<<P(1, 1, NoTech)>>, <<WormholeA>>),
     Blue(<<P(2, 0, NoTech)>>, <<>>),
     Red(<<P(2, 0, NoTech)>>, <<Nebula>>),
     Blue(<<P(1, 0, TechB)>>, <<>>),
     Blue(<<P(2, 1, NoTech), P(0, 1, NoTech)>>, <<WormholeA>>),
     Blue(<<P(2, 1, NoTech)>>, <<>>),
     Red(<<P(2, 1, NoTech)>>, <<WormholeA>>),
     Red(<<P(2, 1, NoTech)>>, <<Asteroid>>),
     Red(<<P(0, 1, NoTech)>>, <<WormholeB>>),
     Blue(<<P(0, 2, NoTech), P(2, 0, NoTech)>>, <<>>),
     Blue(<<P(2, 2, TechB)>>, <<WormholeA, WormholeB>>),
     Red(<<P(2, 1, NoTech)>>, <<WormholeB>>),
     Red(<<P(2, 2, NoTech)>>, <<Nebula>>),
     Blue(<<P(1, 0, NoTech)>>, <<>>),
     Red(<<>>, <<Nebula>>),
     Blue(<<P(2, 2, TechG)>>, <<>>),
     Red(<<>>, <<WormholeA>>),
     Blue(<<P(1, 1, NoTech)>>, <<>>),
     Blue(<<P(2, 2, TechB), P(0, 2, NoTech)>>, <<WormholeA>>),
     Blue(<<P(1, 0, NoTech)>>, <<WormholeA, WormholeB>>),
     Blue(<<P(2, 0, NoTech)>>, <<>>),
     Blue(<<P(1, 2, TechG)>>, <<>>),
     Red(<<P(2, 0, NoTech)>>, <<WormholeB>>),
     Red(<<P(1, 0, NoTech)>>, <<WormholeB>>),
     Red(<<P(1, 0, NoTech)>>, <<WormholeB>>) >>

Catalogs == {CatalogA, CatalogB}

\* the lists draw_all_tiles is run on by itself: every colouring of up to
\* MaxDrawLen tiles without planets
DrawCatalogs ==
  UNION {[1..n -> {Red(<<>>, <<>>), Blue(<<>>, <<>>)}] : n \in 0..MaxDrawLen}

-----------------------------------------------------------------------------
(* Slice.                                                                  *)

\* the tiles of ts before the first None: update_values stops at a None
RECURSIVE RealPrefix(_)
RealPrefix(ts) ==
  IF ts = <<>> \/ Head(ts) = None THEN <<>>
  ELSE <<Head(ts)>> \o RealPrefix(Tail(ts))

\* Slice.update_values: every aggregate recomputed from self.tiles
UpdateValues(s) ==
  LET ts == RealPrefix(s.tiles)
  IN [tiles |-> s.tiles,
      resources |-> SumSeq([k \in 1..Len(ts) |-> tile[ts[k]].resources]),
      influence |-> SumSeq([k \in 1..Len(ts) |-> tile[ts[k]].influence]),
      technology |-> Flatten([k \in 1..Len(ts) |-> tile[ts[k]].technology]),
      wormholes |-> Flatten([k \in 1..Len(ts) |-> tile[ts[k]].wormholes]),
      absolute_value |->
        SumSeq([k \in 1..Len(ts) |-> tile[ts[k]].absolute_value])]

NewSliceFields ==
  [tiles |-> <<>>, resources |-> 0, influence |-> 0, technology |-> <<>>,
   wormholes |-> <<>>, absolute_value |-> 0]

\* Slice.__init__
NewSlice(ts) == UpdateValues([NewSliceFields EXCEPT !.tiles = ts])

\* Slice.is_slice_unbalanced
IsSliceUnbalanced(s) ==
  \/ s.resources >= 2 * s.influence
  \/ s.influence >= 2 * s.resources

\* Tile.__lt__ and its reverse, on tile ids
TileLt(a, b) == tile[a].absolute_value < tile[b].absolute_value
TileGt(a, b) == tile[b].absolute_value < tile[a].absolute_value

\* the index of the first tile of colour `color` in ts, or 0
FirstOfColor(ts, color) ==
  LET idx == {i \in DOMAIN ts : tile[ts[i]].color = color}
  IN IF idx = {} THEN 0 ELSE CHOOSE i \in idx : \A j \in idx : i <= j

\* Slice.remove_best_tile(color): <<the slice after the call, the tile or None>>
\* (the aggregates are left as they were: only add calls update_values)
RemoveBestTile(s, color) ==
  LET sorted == StableSort(s.tiles, {p \in Pairs(s.tiles) : TileGt(p[1], p[2])})
      idx == FirstOfColor(sorted, color)
  IN IF idx = 0 THEN <<[s EXCEPT !.tiles = sorted], None>>
     ELSE <<[s EXCEPT !.tiles = RemoveAt(sorted, idx)], sorted[idx]>>

\* Slice.remove_worst_tile(color)
RemoveWorstTile(s, color) ==
  LET sorted == StableSort(s.tiles, {p \in Pairs(s.tiles) : TileLt(p[1], p[2])})
      idx == FirstOfColor(sorted, color)
  IN IF idx = 0 THEN <<[s EXCEPT !.tiles = sorted], None>>
     ELSE <<[s EXCEPT !.tiles = RemoveAt(sorted, idx)], sorted[idx]>>

\* remove_excessive_tile with a fault: the tile is returned and not popped
RemoveExcessiveTileKeeps(s) ==
  LET byRes == {p \in Pairs(s.tiles) :
                  tile[p[2]].resources < tile[p[1]].resources}
      byInf == {p \in Pairs(s.tiles) :
                  tile[p[2]].influence < tile[p[1]].influence}
      sorted == IF s.resources > s.influence
                THEN StableSort(s.tiles, byRes)
                ELSE StableSort(s.tiles, byInf)
  IN <<[s EXCEPT !.tiles = sorted], Head(sorted)>>

\* Slice.remove_excessive_tile
RemoveExcessiveTile(s) ==
  LET byRes == {p \in Pairs(s.tiles) :
                  tile[p[2]].resources < tile[p[1]].resources}
      byInf == {p \in Pairs(s.tiles) :
                  tile[p[2]].influence < tile[p[1]].influence}
      sorted == IF s.resources > s.influence
                THEN StableSort(s.tiles, byRes)
                ELSE StableSort(s.tiles, byInf)
  IN <<[s EXCEPT !.tiles = Tail(sorted)], Head(sorted)>>

\* add with a fault: the tile is appended and update_values is not called
SliceAddNoUpdate(s, t) == [s EXCEPT !.tiles = Append(s.tiles, t)]

\* Slice.add: append, then update_values
SliceAdd(s, t) == UpdateValues([s EXCEPT !.tiles = Append(s.tiles, t)])

-----------------------------------------------------------------------------
(* draw_all_tiles (players = 6).                                           *)

\* random.shuffle(tiles)
DrawShuffle ==
  /\ pc = "draw"
  /\ \E shuffled \in BoundedShuffles(tiles) : tiles' = shuffled
  /\ pc' = "draw_loop"
  /\ UNCHANGED <<tile, drawn, slices, raised, best_tile, worst_tile,
                 best_inf_tile, best_res_tile, swaps, placeIdx>>

\* DrawPop with a fault: a red tile popped is not put back
DrawPopDropsRed ==
  /\ pc = "draw_loop"
  /\ IF tiles = <<>>
     THEN /\ raised' = Error("IndexError", "draw_all_tiles")
          /\ pc' = "raised"
          /\ UNCHANGED <<tiles, drawn>>
     ELSE /\ drawn' = Head(tiles)
          /\ raised' = raised
          /\ tiles' = Tail(tiles)
          /\ pc' = IF tile[Head(tiles)].color = "red"
                   THEN "draw_loop" ELSE "generate"
  /\ UNCHANGED <<tile, slices, best_tile, worst_tile, best_inf_tile,
                 best_res_tile, swaps, placeIdx>>

\* one turn of `while True`: pop the first tile; a red one goes back to the
\* end of the list, any other ends the loop and the list is returned
DrawPop ==
  /\ pc = "draw_loop"
  /\ IF tiles = <<>>
     THEN /\ raised' = Error("IndexError", "draw_all_tiles")
          /\ pc' = "raised"
          /\ UNCHANGED <<tiles, drawn>>
     ELSE /\ drawn' = Head(tiles)
          /\ raised' = raised
          /\ IF tile[Head(tiles)].color = "red"
             THEN /\ tiles' = Append(Tail(tiles), Head(tiles))
                  /\ pc' = "draw_loop"
             ELSE /\ tiles' = Tail(tiles)
                  /\ pc' = "generate"
  /\ UNCHANGED <<tile, slices, best_tile, worst_tile, best_inf_tile,
                 best_res_tile, swaps, placeIdx>>

-----------------------------------------------------------------------------
(* generate_slices (k = 6).                                                *)

\* [t for t in ts if t.color == color]
OfColor(ts, color) ==
  LET HasColor(t) == tile[t].color = color
  IN SelectSeq(ts, HasColor)

\* the slices built from the shuffled red and blue lists
SlicesFrom(red_tiles, blue_tiles) ==
  [i \in 1..NumSlices |->
     NewSlice([j \in 1..RedPerSlice |-> red_tiles[RedPerSlice * (i - 1) + j]]
              \o [j \in 1..BluePerSlice |->
                    blue_tiles[BluePerSlice * (i - 1) + j]])]

GenerateSlices ==
  /\ pc = "generate"
  /\ \E red_tiles \in BoundedShuffles(OfColor(tiles, "red")),
        blue_tiles \in BoundedShuffles(OfColor(tiles, "blue")) :
       IF \/ Len(red_tiles) < RedPerSlice * NumSlices
          \/ Len(blue_tiles) < BluePerSlice * NumSlices
       THEN \* red_tiles.pop(0) or blue_tiles.pop(0) on an empty list
            /\ raised' = Error("IndexError", "generate_slices")
            /\ pc' = "raised"
            /\ slices' = slices
       ELSE /\ slices' = SlicesFrom(red_tiles, blue_tiles)
            /\ pc' = "check"
            /\ raised' = raised
  /\ UNCHANGED <<tile, tiles, drawn, best_tile, worst_tile, best_inf_tile,
                 best_res_tile, swaps, placeIdx>>

-----------------------------------------------------------------------------
(* check_slice_balance and the loop of prepare_slices.                     *)

MaxValue(ss) ==
  CHOOSE v \in {ss[i].absolute_value : i \in DOMAIN ss} :
    \A i \in DOMAIN ss : ss[i].absolute_value <= v
MinValue(ss) ==
  CHOOSE v \in {ss[i].absolute_value : i \in DOMAIN ss} :
    \A i \in DOMAIN ss : v <= ss[i].absolute_value

\* a >= 1.5 * b
AtLeastOneAndAHalf(a, b) == 2 * a >= 3 * b

\* check_slice_balance with a fault: the slices are not tested for skew
CheckSliceBalanceSpreadOnly(ss) ==
  IF AtLeastOneAndAHalf(MaxValue(ss), MinValue(ss)) THEN FALSE
  ELSE TRUE

\* check_slice_balance
CheckSliceBalance(ss) ==
  IF AtLeastOneAndAHalf(MaxValue(ss), MinValue(ss)) THEN FALSE
  ELSE IF \E i \in DOMAIN ss : IsSliceUnbalanced(ss[i]) THEN FALSE
  ELSE TRUE

\* Check with a fault: the loop breaks on failure instead of on success
CheckBreaksOnFailure ==
  /\ pc = "check"
  /\ IF ~CheckSliceBalance(slices)
     THEN /\ pc' = "place"
          /\ placeIdx' = 1
          /\ swaps' = swaps
     ELSE /\ pc' = "rebalance"
          /\ swaps' = 0
          /\ placeIdx' = placeIdx
  /\ UNCHANGED <<tile, tiles, drawn, slices, raised, best_tile, worst_tile,
                 best_inf_tile, best_res_tile>>

\* success = check_slice_balance(slices); break, or go on to rebalance
Check ==
  /\ pc = "check"
  /\ IF CheckSliceBalance(slices)
     THEN /\ pc' = "place"
          /\ placeIdx' = 1
          /\ swaps' = swaps
     ELSE /\ pc' = "rebalance"
          /\ swaps' = 0
          /\ placeIdx' = placeIdx
  /\ UNCHANGED <<tile, tiles, drawn, slices, raised, best_tile, worst_tile,
                 best_inf_tile, best_res_tile>>

-----------------------------------------------------------------------------
(* rebalance_slices, one method call per step.                             *)

SliceLt(a, b) == a.absolute_value < b.absolute_value

\* x.resources / x.influence compared as floats (influence > 0)
RatioLt(a, b) == a.resources * b.influence < b.resources * a.influence

Worst == 1
Best == NumSlices
MostInfluenceHeavy == 1
MostResourcesHeavy == NumSlices

\* slices.sort(); the test of Move A
SortByValue ==
  /\ pc = "rebalance"
  /\ slices' = StableSort(slices, {p \in Pairs(slices) : SliceLt(p[1], p[2])})
  /\ pc' = IF AtLeastOneAndAHalf(slices'[Best].absolute_value,
                                 slices'[Worst].absolute_value)
           THEN "remove_best" ELSE "sort_ratio"
  /\ UNCHANGED <<tile, tiles, drawn, raised, best_tile, worst_tile,
                 best_inf_tile, best_res_tile, swaps, placeIdx>>

\* best_tile = best_slice.remove_best_tile(); best_tile.color is read next
RemoveBest ==
  /\ pc = "remove_best"
  /\ LET r == RemoveBestTile(slices[Best], "blue")
     IN /\ slices' = [slices EXCEPT ![Best] = r[1]]
        /\ best_tile' = r[2]
        /\ IF r[2] = None
           THEN /\ raised' = Error("AttributeError", "rebalance_slices")
                /\ pc' = "raised"
           ELSE /\ raised' = raised
                /\ pc' = "remove_worst"
  /\ UNCHANGED <<tile, tiles, drawn, worst_tile, best_inf_tile,
                 best_res_tile, swaps, placeIdx>>

\* worst_tile = worst_slice.remove_worst_tile(color=best_tile.color)
RemoveWorst ==
  /\ pc = "remove_worst"
  /\ LET r == RemoveWorstTile(slices[Worst], tile[best_tile].color)
     IN /\ slices' = [slices EXCEPT ![Worst] = r[1]]
        /\ worst_tile' = r[2]
  /\ pc' = "add_to_best"
  /\ UNCHANGED <<tile, tiles, drawn, raised, best_tile, best_inf_tile,
                 best_res_tile, swaps, placeIdx>>

\* best_slice.add(worst_tile): update_values raises on a None
AddToBest ==
  /\ pc = "add_to_best"
  /\ slices' = [slices EXCEPT ![Best] = SliceAdd(@, worst_tile)]
  /\ IF worst_tile = None
     THEN /\ raised' = Error("AttributeError", "rebalance_slices")
          /\ pc' = "raised"
     ELSE /\ raised' = raised
          /\ pc' = "add_to_worst"
  /\ UNCHANGED <<tile, tiles, drawn, best_tile, worst_tile, best_inf_tile,
                 best_res_tile, swaps, placeIdx>>

\* worst_slice.add(best_tile)
AddToWorst ==
  /\ pc = "add_to_worst"
  /\ slices' = [slices EXCEPT ![Worst] = SliceAdd(@, best_tile)]
  /\ swaps' = swaps + 1
  /\ pc' = "sort_ratio"
  /\ UNCHANGED <<tile, tiles, drawn, raised, best_tile, worst_tile,
                 best_inf_tile, best_res_tile, placeIdx>>

\* the test of Move B on the sorted list
SkewTest(ss) ==
  \/ ss[MostInfluenceHeavy].influence >= 2 * ss[MostInfluenceHeavy].resources
  \/ ss[MostResourcesHeavy].resources >= 2 * ss[MostResourcesHeavy].influence

\* slices.sort(key=lambda x: x.resources / x.influence); the test of Move B.
\* The keys are computed first: a slice with influence 0 raises
\* ZeroDivisionError and the list is left as it was.
SortByRatio ==
  /\ pc = "sort_ratio"
  /\ IF \E i \in DOMAIN slices : slices[i].influence = 0
     THEN /\ raised' = Error("ZeroDivisionError", "rebalance_slices")
          /\ pc' = "raised"
          /\ slices' = slices
     ELSE /\ slices' = StableSort(slices,
                              {p \in Pairs(slices) : RatioLt(p[1], p[2])})
          /\ raised' = raised
          /\ pc' = IF SkewTest(slices') THEN "remove_inf" ELSE "return"
  /\ UNCHANGED <<tile, tiles, drawn, best_tile, worst_tile, best_inf_tile,
                 best_res_tile, swaps, placeIdx>>

\* best_inf_tile = most_influence_heavy_slice.remove_excessive_tile()
RemoveExcessiveInf ==
  /\ pc = "remove_inf"
  /\ LET r == RemoveExcessiveTile(slices[MostInfluenceHeavy])
     IN /\ slices' = [slices EXCEPT ![MostInfluenceHeavy] = r[1]]
        /\ best_inf_tile' = r[2]
  /\ pc' = "remove_res"
  /\ UNCHANGED <<tile, tiles, drawn, raised, best_tile, worst_tile,
                 best_res_tile, swaps, placeIdx>>

\* best_res_tile = most_resources_heavy_slice.remove_excessive_tile()
RemoveExcessiveRes ==
  /\ pc = "remove_res"
  /\ LET r == RemoveExcessiveTile(slices[MostResourcesHeavy])
     IN /\ slices' = [slices EXCEPT ![MostResourcesHeavy] = r[1]]
        /\ best_res_tile' = r[2]
  /\ pc' = "add_to_res"
  /\ UNCHANGED <<tile, tiles, drawn, raised, best_tile, worst_tile,
                 best_inf_tile, swaps, placeIdx>>

\* most_resources_heavy_slice.add(best_inf_tile)
AddToResHeavy ==
  /\ pc = "add_to_res"
  /\ slices' = [slices EXCEPT ![MostResourcesHeavy] = SliceAdd(@, best_inf_tile)]
  /\ pc' = "add_to_inf"
  /\ UNCHANGED <<tile, tiles, drawn, raised, best_tile, worst_tile,
                 best_inf_tile, best_res_tile, swaps, placeIdx>>

\* most_influence_heavy_slice.add(best_res_tile)
AddToInfHeavy ==
  /\ pc = "add_to_inf"
  /\ slices' = [slices EXCEPT ![MostInfluenceHeavy] = SliceAdd(@, best_res_tile)]
  /\ swaps' = swaps + 1
  /\ pc' = "return"
  /\ UNCHANGED <<tile, tiles, drawn, raised, best_tile, worst_tile,
                 best_inf_tile, best_res_tile, placeIdx>>

\* return slices; slices = rebalance_slices(slices); back to the loop head
RebalanceReturn ==
  /\ pc = "return"
  /\ pc' = "check"
  /\ UNCHANGED <<tile, tiles, drawn, slices, raised, best_tile, worst_tile,
                 best_inf_tile, best_res_tile, swaps, placeIdx>>

-----------------------------------------------------------------------------
(* Slice.place_tiles.                                                      *)

NonHubSlots == <<1, 3, 5, 6>>

Reverse(s) == [i \in 1..Len(s) |-> s[Len(s) + 1 - i]]

\* multiple_anomalies, over the tiles ts (None skipped)
MultipleAnomalies(ts) ==
  Cardinality({i \in DOMAIN ts :
                 ts[i] # None /\ tile[ts[i]].anomalies # <<>>}) > 1

\* The random outcomes of one call: the shuffled self.tiles, the shuffled
\* non_allocated and the value of random.randint(0, len(non_allocated) - 1).
AllDraws(ts) ==
  [tiles : AllShuffles(ts), non_allocated : AllShuffles(NonHubSlots),
   pos : 0..(Len(NonHubSlots) - 1)]

\* the two outcomes the whole pipeline is explored under
PipelineDraws(ts) ==
  {[tiles |-> ts, non_allocated |-> NonHubSlots, pos |-> 0],
   [tiles |-> Reverse(ts), non_allocated |-> Reverse(NonHubSlots),
    pos |-> Len(NonHubSlots) - 1]}

\* SlotOrder with a fault: slot 0 goes to the drawn position whatever the
\* anomalies
SlotOrderIgnoresAnomalies(d) ==
  IF OfColor(d.tiles, "blue") = <<>> THEN d.non_allocated
  ELSE InsertAt(d.non_allocated, d.pos, 0)

\* the slots in the order the tiles take them: slot 0 joins the list when
\* the first blue tile is met, at the front or at the drawn position
SlotOrder(d) ==
  IF OfColor(d.tiles, "blue") = <<>> THEN d.non_allocated
  ELSE IF MultipleAnomalies(d.tiles) THEN InsertAt(d.non_allocated, 0, 0)
  ELSE InsertAt(d.non_allocated, d.pos, 0)

\* the tiles in the order they are placed: the blue ones, then the red ones
PlaceOrder(d) == OfColor(d.tiles, "blue") \o OfColor(d.tiles, "red")

\* result, slot p of the code at index p + 1
PlaceResult(d) ==
  LET slots == SlotOrder(d)
      order == PlaceOrder(d)
  IN [p \in 1..NumSlots |->
        IF \E k \in 1..Len(order) : slots[k] = p - 1
        THEN order[CHOOSE k \in 1..Len(order) : slots[k] = p - 1]
        ELSE None]

\* slice_.place_tiles() for the slice at placeIdx, and the step of the loop
PlaceTiles(draws) ==
  /\ pc = "place"
  /\ \E d \in draws :
       IF Len(PlaceOrder(d)) > Len(SlotOrder(d))
       THEN \* non_allocated.pop(0) on an empty list; self.tiles stays shuffled
            /\ slices' = [slices EXCEPT ![placeIdx].tiles = d.tiles]
            /\ raised' = Error("IndexError", "place_tiles")
            /\ pc' = "raised"
            /\ placeIdx' = placeIdx
       ELSE /\ slices' = [slices EXCEPT ![placeIdx].tiles = PlaceResult(d)]
            /\ raised' = raised
            /\ placeIdx' = placeIdx + 1
            /\ pc' = IF placeIdx = Len(slices) THEN "done" ELSE "place"
  /\ UNCHANGED <<tile, tiles, drawn, best_tile, worst_tile, best_inf_tile,
                 best_res_tile, swaps>>

PlacePipeline == PlaceTiles(PipelineDraws(slices[placeIdx].tiles))
PlaceAny == PlaceTiles(AllDraws(slices[placeIdx].tiles))

-----------------------------------------------------------------------------
(* Specifications.                                                         *)

NoLocals ==
  /\ drawn = None
  /\ raised = NoError
  /\ best_tile = None
  /\ worst_tile = None
  /\ best_inf_tile = None
  /\ best_res_tile = None
  /\ swaps = 0

\* prepare_slices, from the tiles built from a catalog
Init ==
  /\ tile \in {BuildTiles(c) : c \in Catalogs}
  /\ tiles = [i \in DOMAIN tile |-> i]
  /\ slices = <<>>
  /\ pc = "draw"
  /\ placeIdx = 0
  /\ NoLocals

Next ==
  \/ DrawShuffle
  \/ DrawPop
  \/ GenerateSlices
  \/ Check
  \/ SortByValue
  \/ RemoveBest
  \/ RemoveWorst
  \/ AddToBest
  \/ AddToWorst
  \/ SortByRatio
  \/ RemoveExcessiveInf
  \/ RemoveExcessiveRes
  \/ AddToResHeavy
  \/ AddToInfHeavy
  \/ RebalanceReturn
  \/ PlacePipeline

Spec == Init /\ [][Next]_vars

\* the single thread of control keeps running
FairSpec == Spec /\ WF_vars(Next)

\* draw_all_tiles on its own, on every short list of red and blue tiles
InitDraw ==
  /\ tile \in {BuildTiles(c) : c \in DrawCatalogs}
  /\ tiles = [i \in DOMAIN tile |-> i]
  /\ slices = <<>>
  /\ pc = "draw"
  /\ placeIdx = 0
  /\ NoLocals

NextDraw == DrawShuffle \/ DrawPop

SpecDraw == InitDraw /\ [][NextDraw]_vars /\ WF_vars(NextDraw)

\* place_tiles on its own, under every outcome of its shuffles, on one
\* slice of 5 tiles: the first n red and the first 5 - n blue tiles of a
\* catalog whose red and blue tiles are rotated by k
InitPlace ==
  /\ tile \in {BuildTiles(c) : c \in Catalogs}
  /\ tiles = [i \in DOMAIN tile |-> i]
  /\ \E k \in 0..MaxPlaceRot, n \in 0..(RedPerSlice + BluePerSlice) :
       slices = <<NewSlice(
                    SubSeq(Rot(OfColor(tiles, "red"), k), 1, n)
                    \o SubSeq(Rot(OfColor(tiles, "blue"), k), 1,
                              RedPerSlice + BluePerSlice - n))>>
  /\ pc = "place"
  /\ placeIdx = 1
  /\ NoLocals

NextPlace == PlaceAny

SpecPlace == InitPlace /\ [][NextPlace]_vars

-----------------------------------------------------------------------------
(* What the claims are stated over.                                        *)

\* the tiles a slice holds now (a placed slice has None in its free slots)
IsTile(t) == t # None
Members(s) == SelectSeq(s.tiles, IsTile)

ResourcesOf(s) ==
  SumSeq([k \in 1..Len(Members(s)) |-> tile[Members(s)[k]].resources])
InfluenceOf(s) ==
  SumSeq([k \in 1..Len(Members(s)) |-> tile[Members(s)[k]].influence])
ValueOf(s) ==
  SumSeq([k \in 1..Len(Members(s)) |-> tile[Members(s)[k]].absolute_value])

\* the aggregates a slice stores are those of the tiles it holds
Fresh(s) ==
  /\ s.resources = ResourcesOf(s)
  /\ s.influence = InfluenceOf(s)
  /\ s.absolute_value = ValueOf(s)

\* the number of tiles of a colour a slice holds
CountColor(s, color) == Len(OfColor(Members(s), color))

\* the balance loop of prepare_slices has exited
LoopExited == pc \in {"place", "done"} \/ raised.in = "place_tiles"

\* slice i has been through place_tiles
Placed(i) == i \in DOMAIN slices /\ Len(slices[i].tiles) = NumSlots

\* the tile in slot p of a placed slice
Slot(s, p) == s.tiles[p + 1]

-----------------------------------------------------------------------------
(* C1 *)

\* C1: whenever the balance loop of prepare_slices has exited, the slices
\* are balanced with respect to the tiles they hold: the largest sum of
\* tile values is less than 1.5 times the smallest, and no slice has
\* resources >= 2 * influence or influence >= 2 * resources.
C1_BalancedAtExit ==
  LoopExited =>
    /\ \A i, j \in DOMAIN slices :
         2 * ValueOf(slices[i]) < 3 * ValueOf(slices[j])
    /\ \A i \in DOMAIN slices :
         /\ ~(ResourcesOf(slices[i]) >= 2 * InfluenceOf(slices[i]))
         /\ ~(InfluenceOf(slices[i]) >= 2 * ResourcesOf(slices[i]))

\* the loop exited after a pass that swapped tiles, and every slice is placed
C1_Witness == pc = "done" /\ swaps > 0

-----------------------------------------------------------------------------
(* C2 *)

\* the tile taken out of slice i and not yet replaced, or None
Removed(i) ==
  IF pc \in {"remove_worst", "add_to_best"} /\ i = Best THEN best_tile
  ELSE IF pc \in {"add_to_best", "add_to_worst"} /\ i = Worst THEN worst_tile
  ELSE IF pc \in {"remove_res", "add_to_res", "add_to_inf"}
          /\ i = MostInfluenceHeavy THEN best_inf_tile
  ELSE IF pc = "add_to_res" /\ i = MostResourcesHeavy THEN best_res_tile
  ELSE None

\* C2 as claimed: after every add and after every remove, every slice's
\* stored resources, influence and absolute_value are the sums over the
\* tiles it holds.
C2_Original == \A i \in DOMAIN slices : Fresh(slices[i])

\* C2 as amended: a slice's stored aggregates are the sums over the tiles it
\* holds after every add; a remove leaves them as they were, so between a
\* remove and the add that follows they still count the removed tile.
C2_FreshAfterAdd ==
  \A i \in DOMAIN slices :
    IF Removed(i) = None THEN Fresh(slices[i])
    ELSE /\ slices[i].resources =
              ResourcesOf(slices[i]) + tile[Removed(i)].resources
         /\ slices[i].influence =
              InfluenceOf(slices[i]) + tile[Removed(i)].influence
         /\ slices[i].absolute_value =
              ValueOf(slices[i]) + tile[Removed(i)].absolute_value

\* both adds of Move A are done: the best and the worst slice hold each
\* other's tile and store the new sums
C2_Witness ==
  /\ pc = "sort_ratio"
  /\ swaps = 1
  /\ best_tile \in Range(slices[Worst].tiles)
  /\ worst_tile \in Range(slices[Best].tiles)
  /\ tile[best_tile].absolute_value # tile[worst_tile].absolute_value
  /\ Fresh(slices[Best])
  /\ Fresh(slices[Worst])

-----------------------------------------------------------------------------
(* C3 *)

\* generate_slices has returned, or a call of rebalance_slices has
CallCompleted == pc \in {"check", "return"}

\* C3: after generate_slices and after every completed call of
\* rebalance_slices, every slice holds exactly 5 tiles and each tile of the
\* pool is in exactly one place of exactly one slice.
C3_Partition ==
  CallCompleted =>
    /\ Len(slices) = NumSlices
    /\ \A i \in DOMAIN slices :
         Len(slices[i].tiles) = RedPerSlice + BluePerSlice
    /\ \A t \in Range(tiles) :
         Cardinality({<<i, k>> \in (DOMAIN slices) \X (1..NumSlots) :
                        k \in DOMAIN slices[i].tiles
                        /\ slices[i].tiles[k] = t}) = 1

\* a pass that made both swaps has returned
C3_Witness ==
  /\ pc = "return"
  /\ swaps = 2
  /\ Len(tiles) = NumSlices * (RedPerSlice + BluePerSlice)

-----------------------------------------------------------------------------
(* C4 *)

\* C4 as claimed: after generate_slices and after every completed call of
\* rebalance_slices every slice holds exactly 2 red and 3 blue tiles.
C4_Claim ==
  CallCompleted =>
    \A i \in DOMAIN slices :
      /\ CountColor(slices[i], "red") = RedPerSlice
      /\ CountColor(slices[i], "blue") = BluePerSlice

-----------------------------------------------------------------------------
(* C5 *)

FilledSlots == {0, 1, 3, 5, 6}
EmptySlots == {2, 4}

\* C5 as claimed: place_tiles on a slice of 5 tiles completes, and leaves
\* 7 slots of which 2 and 4 are empty and 0, 1, 3, 5, 6 hold the slice's 5
\* tiles, each once.
C5_Claim ==
  [][(pc = "place" /\ Len(slices[placeIdx].tiles) = RedPerSlice + BluePerSlice)
       => /\ pc' # "raised"
          /\ Len(slices'[placeIdx].tiles) = NumSlots
          /\ \A p \in EmptySlots : Slot(slices'[placeIdx], p) = None
          /\ \A t \in Range(slices[placeIdx].tiles) :
               Cardinality({p \in FilledSlots :
                              Slot(slices'[placeIdx], p) = t}) = 1]_vars

-----------------------------------------------------------------------------
(* C6 *)

\* C6: in every placed slice in which more than one tile has an anomaly,
\* slot 0 holds one of the slice's blue tiles.
C6_HubIsBlue ==
  \A i \in DOMAIN slices :
    (Placed(i) /\ MultipleAnomalies(slices[i].tiles)) =>
      /\ Slot(slices[i], 0) # None
      /\ tile[Slot(slices[i], 0)].color = "blue"

\* a placed slice with several anomaly tiles, red tiles among them, and a
\* blue tile in slot 0
C6_Witness ==
  \E i \in DOMAIN slices :
    /\ Placed(i)
    /\ MultipleAnomalies(slices[i].tiles)
    /\ CountColor(slices[i], "red") > 0
    /\ Slot(slices[i], 0) # None
    /\ tile[Slot(slices[i], 0)].color = "blue"

-----------------------------------------------------------------------------
(* C7 *)

\* draw_all_tiles has returned
DrawReturned == pc = "generate"

\* the returned list is the input without the tile drawn, which is blue
DrawPost ==
  /\ Len(tiles) = Cardinality(DOMAIN tile) - 1
  /\ drawn \in DOMAIN tile
  /\ tile[drawn].color = "blue"
  /\ \A t \in DOMAIN tile :
       Cardinality({k \in DOMAIN tiles : tiles[k] = t})
         = IF t = drawn THEN 0 ELSE 1

HasBlue == \E t \in DOMAIN tile : tile[t].color = "blue"

\* C7 as claimed: for any tile list, draw_all_tiles terminates and returns
\* the list without exactly one tile, a blue one.
C7_Original == <>(DrawReturned /\ DrawPost)

\* C7 as amended: for any tile list that holds at least one blue tile,
\* draw_all_tiles terminates and returns the list without exactly one tile,
\* a blue one, every other tile still in it once.
C7_DrawsOneBlue == HasBlue ~> (DrawReturned /\ DrawPost)

\* a return after a red tile went back to the end of the list
C7_Witness ==
  /\ DrawReturned
  /\ DrawPost
  /\ Len(tiles) > 1
  /\ tile[tiles[Len(tiles)]].color = "red"
  /\ tile[tiles[1]].color = "blue"

-----------------------------------------------------------------------------
(* C8 *)

\* C8 as claimed: the balance loop terminates, by reaching a state in which
\* check_slice_balance is true.  A run that an exception ends counts as
\* terminated here, so what refutes the formula is a run that stays in the
\* loop for ever.
C8_Original == <>(pc = "place" \/ pc = "raised")

\* C8 as amended: the loop exits as soon as check_slice_balance is true at
\* its head; it is not bound to get there (some pools cycle, some raise).
C8_ExitsWhenBalanced ==
  (pc = "check" /\ CheckSliceBalance(slices)) ~> pc = "place"

\* the loop has just exited after a pass that made both swaps
C8_Witness == pc = "place" /\ placeIdx = 1 /\ swaps = 2

-----------------------------------------------------------------------------
(* C9 *)

\* C9 as claimed: in every placed slice in which more than one tile has an
\* anomaly, the tile in slot 0 has no anomaly.
C9_Claim ==
  \A i \in DOMAIN slices :
    (Placed(i) /\ MultipleAnomalies(slices[i].tiles)
       /\ Slot(slices[i], 0) # None) =>
      tile[Slot(slices[i], 0)].anomalies = <<>>

-----------------------------------------------------------------------------
(* C10 *)

\* C10 as claimed: a call of rebalance_slices on slices that
\* check_slice_balance rejects completes without error and has swapped at
\* least one pair of tiles when it returns.
C10_Claim ==
  /\ raised.in # "rebalance_slices"
  /\ pc = "return" => swaps >= 1

=============================================================================
